---- MODULE Spec2Model ----
(***************************************************************************)
(* Model of app/src/lib/git/tag.ts: the five tag operations (createTag,    *)
(* getAllTags, getAnnotatedTags, fetchRemoteTags, isTagReachableByRemote)  *)
(* over the command runner `git` of ./core.                                *)
(*                                                                         *)
(* A JavaScript string is a sequence of characters; a character is a       *)
(* one-letter TLA+ string, the control characters being TAB, LF and NUL.   *)
(***************************************************************************)
EXTENDS Integers, Sequences, FiniteSets

VARIABLES
  tags,        \* the repository's local tags: name -> "none" | "commit" | "tag"
  pc,          \* position of the one call in flight
  call,        \* the operation called and its arguments
  args,        \* the argument list the operation handed to the runner
  runnerCalls, \* runner invocations made by the call in flight
  stdout,      \* the text the runner returned
  runnerErr,   \* the error the runner raised ("none" when it raised none)
  outcome,     \* how the call ended: [status, result, error]
  lastAll,     \* result of the last getAllTags since the tags last changed
  lastAnn,     \* result of the last getAnnotatedTags since the tags last changed
  created,     \* names whose createTag succeeded
  tagsAtCall,  \* the local tags when the call in flight began
  containing   \* the remote-tracking branches the runner found to contain the tag

vars == << tags, pc, call, args, runnerCalls, stdout, runnerErr, outcome,
           lastAll, lastAnn, created, tagsAtCall, containing >>

-----------------------------------------------------------------------------
(* Characters and literals *)

TAB == "\t"
LF == "\n"
NUL == "\\0"

RefsTags == << "r", "e", "f", "s", "/", "t", "a", "g", "s", "/" >>
Peeled == << "^", "{", "}" >>
Braces == << "{", "}" >>
StrTag == << "t", "a", "g" >>
StrCommit == << "c", "o", "m", "m", "i", "t" >>
Slash == << "/" >>

\* values that are not strings
Undefined == << "undefined" >>
Null == << "null" >>

-----------------------------------------------------------------------------
(* String.prototype methods used by tag.ts *)

StartsWith(s, p) == Len(p) <= Len(s) /\ SubSeq(s, 1, Len(p)) = p

EndsWith(s, p) == Len(p) <= Len(s) /\ SubSeq(s, Len(s) - Len(p) + 1, Len(s)) = p

Drop(s, n) == SubSeq(s, n + 1, Len(s))

IndexOf(s, c) ==
  IF \E i \in 1..Len(s) : s[i] = c
    THEN CHOOSE i \in 1..Len(s) : s[i] = c /\ \A j \in 1..(i - 1) : s[j] # c
    ELSE 0

RECURSIVE Split(_, _)
Split(s, c) ==
  LET i == IndexOf(s, c)
  IN IF i = 0 THEN << s >>
     ELSE << SubSeq(s, 1, i - 1) >> \o Split(Drop(s, i), c)

\* array destructuring: the i-th element, undefined past the end
Field(fields, i) == IF Len(fields) >= i THEN fields[i] ELSE Undefined

NotEmpty(s) == s # << >>

NotNull(t) == t # Null

-----------------------------------------------------------------------------
(* fetchRemoteTags: the parse of `ls-remote --tags` output *)

ReplaceRefsTagsIdentity(s) == s

\* .replace(/^refs\/tags\//, '')
ReplaceRefsTags(s) == IF StartsWith(s, RefsTags) THEN Drop(s, Len(RefsTags)) ELSE s

\* .replace(/^{}/, ''): the caret is the start-of-input assertion and the
\* braces, which form no quantifier, are literal characters
ReplaceLeadingBraces(s) == IF StartsWith(s, Braces) THEN Drop(s, Len(Braces)) ELSE s

RemoteTagOfLineKeepPeeled(line) ==
  LET fullTagName == Field(Split(line, TAB), 2)
  IN IF fullTagName = Undefined \/ fullTagName = << >> THEN Null
     ELSE ReplaceLeadingBraces(ReplaceRefsTags(fullTagName))

RemoteTagOfLineStripSuffix(line) ==
  LET fullTagName == Field(Split(line, TAB), 2)
  IN IF fullTagName = Undefined \/ fullTagName = << >> THEN Null
     ELSE IF EndsWith(fullTagName, Peeled)
       THEN ReplaceRefsTags(SubSeq(fullTagName, 1, Len(fullTagName) - Len(Peeled)))
     ELSE ReplaceLeadingBraces(ReplaceRefsTags(fullTagName))

RemoteTagOfLine(line) ==
  LET fullTagName == Field(Split(line, TAB), 2)
  IN IF fullTagName = Undefined \/ fullTagName = << >> THEN Null
     ELSE IF EndsWith(fullTagName, Peeled) THEN Null
     ELSE ReplaceLeadingBraces(ReplaceRefsTags(fullTagName))

ParseRemoteTags(text) ==
  LET lines == Split(text, LF)
  IN SelectSeq([i \in 1..Len(lines) |-> RemoteTagOfLine(lines[i])], NotNull)

-----------------------------------------------------------------------------
(* getAllTags and getAnnotatedTags: the parses of `tag` output *)

ParseAllTags(text) == SelectSeq(Split(text, LF), NotEmpty)

AnnotatedTagOfLineAnyType(tagLine) ==
  IF tagLine = << >> THEN << >> ELSE Field(Split(tagLine, NUL), 1)

AnnotatedTagOfLine(tagLine) ==
  IF tagLine = << >> THEN << >>
  ELSE LET name == Field(Split(tagLine, NUL), 1)
           objectType == Field(Split(tagLine, NUL), 2)
       IN IF objectType # StrTag THEN << >> ELSE name

ParseAnnotatedTags(text) ==
  LET rawTags == Split(text, LF)
  IN SelectSeq([i \in 1..Len(rawTags) |-> AnnotatedTagOfLine(rawTags[i])], NotEmpty)

-----------------------------------------------------------------------------
(* isTagReachableByRemote: the filter of `branch --remote --contains` output *)

BranchOfRemoteNoSlash(line, remoteName) == StartsWith(line, remoteName)

BranchOfRemote(line, remoteName) == StartsWith(line, remoteName \o Slash)

ParseReachable(text, remoteName) ==
  LET branches == SelectSeq(Split(text, LF), LAMBDA line : BranchOfRemote(line, remoteName))
  IN Len(branches) > 0

-----------------------------------------------------------------------------
(* Argument lists handed to the runner *)

OptA == << "-", "a" >>
OptM == << "-", "m" >>
OptC == << "-", "c" >>
CredentialHelper ==
  << "c", "r", "e", "d", "e", "n", "t", "i", "a", "l", ".", "h", "e", "l", "p", "e", "r", "=" >>
LsRemote == << "l", "s", "-", "r", "e", "m", "o", "t", "e" >>
OptTags == << "-", "-", "t", "a", "g", "s" >>
Branch == << "b", "r", "a", "n", "c", "h" >>
OptRemote == << "-", "-", "r", "e", "m", "o", "t", "e" >>
OptContains == << "-", "-", "c", "o", "n", "t", "a", "i", "n", "s" >>
FormatShort ==
  << "-", "-", "f", "o", "r", "m", "a", "t", "=", "%", "(", "r", "e", "f", "n", "a", "m", "e",
     ":", "s", "h", "o", "r", "t", ")" >>
FormatNameType ==
  << "-", "-", "f", "o", "r", "m", "a", "t", "=", "%", "(", "r", "e", "f", "n", "a", "m", "e",
     ":", "s", "t", "r", "i", "p", "=", "2", ")", "%", "0", "0", "%", "(", "o", "b", "j", "e",
     "c", "t", "t", "y", "p", "e", ")" >>

CreateTagArgsLightweight(name, targetCommitSha) == << StrTag, name, targetCommitSha >>

CreateTagArgs(name, targetCommitSha) ==
  << StrTag, OptA, OptM, << >>, name, targetCommitSha >>

GetAllTagsArgs == << StrTag >>

GetAnnotatedTagsArgs == << StrTag, FormatNameType >>

FetchRemoteTagsArgs(networkArguments, remoteName) ==
  networkArguments \o << LsRemote, OptTags, remoteName >>

IsTagReachableArgs(tag) == << Branch, OptRemote, OptContains, tag, FormatShort >>

\* gitNetworkArguments of ./core: the transport options put before a network command
GitNetworkArguments(account) == << OptC, CredentialHelper >>

-----------------------------------------------------------------------------
(* How an awaited runner call ends for the operation *)

Void == "void"

AwaitRejectedSwallowed(err) == [status |-> "ok", result |-> << << >> >>, error |-> "none"]

\* `await git(...)` with no try/catch: the rejection is the operation's rejection
AwaitRejected(err) == [status |-> "failed", result |-> << >>, error |-> err]

Resolved(value) == [status |-> "ok", result |-> << value >>, error |-> "none"]

Pending == [status |-> "pending", result |-> << >>, error |-> "none"]

-----------------------------------------------------------------------------
(* Bounds and the sets inputs are drawn from *)

NumTagNames == 2
MaxLines == 2
MaxPrefixes == 2
MaxBranchLines == 2

Min(a, b) == IF a <= b THEN a ELSE b

TagNameList == << << "t", "a", "g" >>, << "v" >>, << "w", "/", "v" >>, << "{", "}", "v" >> >>
TagNames == { TagNameList[i] : i \in 1..Min(NumTagNames, Len(TagNameList)) }
TagKinds == { "commit", "tag" }

Commit == << "c" >>
NoCommit == << "x" >>
Shas == { Commit, NoCommit }

RemoteNames == { << "o" >>, << "u" >>, << "o", "/", "x" >> }
BranchNames == { << "m" >> }
TrackingBranches == [remote : RemoteNames, branch : BranchNames]

Accounts == { "null", "account" }

NoCall == [op |-> "none", name |-> << >>, sha |-> << >>, account |-> "null", remote |-> << >>]
-----------------------------------------------------------------------------
(* The runner: `git` of ./core running the git tool in the repository *)

\* the argument list with the leading `-c <option>` pairs removed
RECURSIVE Command(_)
Command(a) == IF Len(a) >= 2 /\ a[1] = OptC THEN Command(Drop(a, 2)) ELSE a

NameCount == Min(NumTagNames, Len(TagNameList))

RECURSIVE Concat(_)
Concat(ss) == IF ss = << >> THEN << >> ELSE Head(ss) \o Concat(Tail(ss))

Exists(t, i) == t[TagNameList[i]] # "none"

ObjectType(kind) == IF kind = "tag" THEN StrTag ELSE StrCommit

\* `git tag`: one name per line, in name order
NameListing(t) ==
  Concat([i \in 1..NameCount |->
            IF Exists(t, i) THEN TagNameList[i] \o << LF >> ELSE << >>])

\* `git tag --format=%(refname:strip=2)%00%(objecttype)`
NameTypeListing(t) ==
  Concat([i \in 1..NameCount |->
            IF Exists(t, i)
              THEN TagNameList[i] \o << NUL >> \o ObjectType(t[TagNameList[i]]) \o << LF >>
              ELSE << >>])

RefLine(name, kind) ==
  Commit \o << TAB >> \o RefsTags \o name \o << LF >>
  \o (IF kind = "tag"
        THEN Commit \o << TAB >> \o RefsTags \o name \o Peeled \o << LF >>
        ELSE << >>)

\* `git ls-remote --tags`: one line per tag ref, and a peeled line after an annotated one
RefListing(t) ==
  Concat([i \in 1..NameCount |->
            IF Exists(t, i) THEN RefLine(TagNameList[i], t[TagNameList[i]]) ELSE << >>])

\* `%(refname:short)` of refs/remotes/<remote>/<branch>
ShortRefName(b) == b.remote \o Slash \o b.branch

RECURSIVE BranchListing(_)
BranchListing(bs) ==
  IF bs = {} THEN << >>
  ELSE LET b == CHOOSE x \in bs : TRUE
       IN ShortRefName(b) \o << LF >> \o BranchListing(bs \ {b})

Returns(text) ==
  /\ pc' = "returned"
  /\ stdout' = text
  /\ UNCHANGED << call, args, runnerCalls, runnerErr, outcome, created, tagsAtCall >>

\* `git tag [-a -m <msg>] <name> <commit>` on a free name and an existing commit
RunnerCreatesTag ==
  /\ pc = "running"
  /\ LET cmd == Command(args)
     IN /\ Len(cmd) >= 3 /\ cmd[1] = StrTag
        /\ cmd[Len(cmd) - 1] \in TagNames
        /\ tags[cmd[Len(cmd) - 1]] = "none"
        /\ cmd[Len(cmd)] = Commit
        /\ tags' = [tags EXCEPT ![cmd[Len(cmd) - 1]] =
                      IF cmd[2] = OptA THEN "tag" ELSE "commit"]
  /\ lastAll' = << >>
  /\ lastAnn' = << >>
  /\ Returns(<< >>)
  /\ UNCHANGED containing

\* `git tag <name> <commit>` on a name that exists: the tool's Conflict error
RunnerRejectsTag ==
  /\ pc = "running"
  /\ LET cmd == Command(args)
     IN /\ Len(cmd) >= 3 /\ cmd[1] = StrTag
        /\ cmd[Len(cmd) - 1] \in TagNames
        /\ tags[cmd[Len(cmd) - 1]] # "none"
  /\ pc' = "failed"
  /\ runnerErr' = "Conflict"
  /\ UNCHANGED << tags, call, args, runnerCalls, stdout, outcome, lastAll, lastAnn,
                  created, tagsAtCall, containing >>

\* `git tag`
RunnerListsTags ==
  /\ pc = "running"
  /\ Command(args) = << StrTag >>
  /\ Returns(NameListing(tags))
  /\ UNCHANGED << tags, lastAll, lastAnn, containing >>

\* `git tag --format=%(refname:strip=2)%00%(objecttype)`
RunnerFormatsTags ==
  /\ pc = "running"
  /\ Command(args) = << StrTag, FormatNameType >>
  /\ Returns(NameTypeListing(tags))
  /\ UNCHANGED << tags, lastAll, lastAnn, containing >>

\* `git ls-remote --tags <remote>`: the tag refs the remote has at that moment
RunnerListsRemote ==
  /\ pc = "running"
  /\ LET cmd == Command(args)
     IN Len(cmd) = 3 /\ cmd[1] = LsRemote /\ cmd[2] = OptTags
  /\ \E remoteTags \in [TagNames -> {"none"} \cup TagKinds] :
       Returns(RefListing(remoteTags))
  /\ UNCHANGED << tags, lastAll, lastAnn, containing >>

\* `git branch --remote --contains <tag> --format=%(refname:short)`
RunnerListsBranches ==
  /\ pc = "running"
  /\ LET cmd == Command(args)
     IN /\ Len(cmd) = 5 /\ cmd[1] = Branch /\ cmd[2] = OptRemote /\ cmd[3] = OptContains
        /\ cmd[5] = FormatShort
        /\ cmd[4] \in TagNames /\ tags[cmd[4]] # "none"
  /\ \E bs \in SUBSET TrackingBranches :
       /\ containing' = bs
       /\ Returns(BranchListing(bs))
  /\ UNCHANGED << tags, lastAll, lastAnn >>

\* any command may exit non-zero
RunnerFails ==
  /\ pc = "running"
  /\ pc' = "failed"
  /\ runnerErr' = "ToolInvocationError"
  /\ UNCHANGED << tags, call, args, runnerCalls, stdout, outcome, lastAll, lastAnn,
                  created, tagsAtCall, containing >>

-----------------------------------------------------------------------------
(* The operations of tag.ts *)

Invoke(op, name, sha, account, remote, argv) ==
  /\ pc = "idle"
  /\ pc' = "running"
  /\ call' = [op |-> op, name |-> name, sha |-> sha, account |-> account, remote |-> remote]
  /\ args' = argv
  /\ runnerCalls' = runnerCalls + 1
  /\ tagsAtCall' = tags
  /\ UNCHANGED << tags, stdout, runnerErr, outcome, lastAll, lastAnn, created, containing >>

CallCreateTag ==
  \E name \in TagNames, sha \in Shas :
    Invoke("createTag", name, sha, "null", << >>, CreateTagArgs(name, sha))

CallGetAllTags == Invoke("getAllTags", << >>, << >>, "null", << >>, GetAllTagsArgs)

CallGetAnnotatedTags ==
  Invoke("getAnnotatedTags", << >>, << >>, "null", << >>, GetAnnotatedTagsArgs)

\* up to the first await: gitNetworkArguments is awaited before the runner
CallFetchRemoteTags ==
  \E account \in Accounts, remote \in RemoteNames :
    /\ pc = "idle"
    /\ pc' = "netargs"
    /\ call' = [op |-> "fetchRemoteTags", name |-> << >>, sha |-> << >>,
                account |-> account, remote |-> remote]
    /\ tagsAtCall' = tags
    /\ UNCHANGED << tags, args, runnerCalls, stdout, runnerErr, outcome, lastAll, lastAnn,
                    created, containing >>

InvokeFetchRemoteTags ==
  /\ pc = "netargs"
  /\ pc' = "running"
  /\ args' = FetchRemoteTagsArgs(GitNetworkArguments(call.account), call.remote)
  /\ runnerCalls' = runnerCalls + 1
  /\ UNCHANGED << tags, call, stdout, runnerErr, outcome, lastAll, lastAnn, created,
                  tagsAtCall, containing >>

CallIsTagReachableByRemote ==
  \E tag \in TagNames, remote \in RemoteNames :
    Invoke("isTagReachableByRemote", tag, << >>, "null", remote, IsTagReachableArgs(tag))

Settle(o) ==
  /\ pc' = "done"
  /\ outcome' = o
  /\ UNCHANGED << tags, call, args, runnerCalls, stdout, runnerErr, tagsAtCall, containing >>

\* the awaited runner call rejected
Rejects ==
  /\ pc = "failed"
  /\ Settle(AwaitRejected(runnerErr))
  /\ UNCHANGED << lastAll, lastAnn, created >>

CompleteCreateTag ==
  /\ pc = "returned" /\ call.op = "createTag"
  /\ Settle(Resolved(Void))
  /\ created' = created \cup {call.name}
  /\ UNCHANGED << lastAll, lastAnn >>

CompleteGetAllTags ==
  /\ pc = "returned" /\ call.op = "getAllTags"
  /\ Settle(Resolved(ParseAllTags(stdout)))
  /\ lastAll' = << ParseAllTags(stdout) >>
  /\ UNCHANGED << lastAnn, created >>

CompleteGetAnnotatedTags ==
  /\ pc = "returned" /\ call.op = "getAnnotatedTags"
  /\ Settle(Resolved(ParseAnnotatedTags(stdout)))
  /\ lastAnn' = << ParseAnnotatedTags(stdout) >>
  /\ UNCHANGED << lastAll, created >>

CompleteFetchRemoteTags ==
  /\ pc = "returned" /\ call.op = "fetchRemoteTags"
  /\ Settle(Resolved(ParseRemoteTags(stdout)))
  /\ UNCHANGED << lastAll, lastAnn, created >>

CompleteIsTagReachableByRemote ==
  /\ pc = "returned" /\ call.op = "isTagReachableByRemote"
  /\ Settle(Resolved(ParseReachable(stdout, call.remote)))
  /\ UNCHANGED << lastAll, lastAnn, created >>

\* the caller has the outcome; the next call may begin
Return ==
  /\ pc = "done"
  /\ pc' = "idle"
  /\ call' = NoCall
  /\ args' = << >>
  /\ runnerCalls' = 0
  /\ stdout' = << >>
  /\ runnerErr' = "none"
  /\ outcome' = Pending
  /\ containing' = {}
  /\ tagsAtCall' = tags
  /\ UNCHANGED << tags, lastAll, lastAnn, created >>

Init ==
  /\ tags \in [TagNames -> {"none"} \cup TagKinds]
  /\ pc = "idle"
  /\ call = NoCall
  /\ args = << >>
  /\ runnerCalls = 0
  /\ stdout = << >>
  /\ runnerErr = "none"
  /\ outcome = Pending
  /\ lastAll = << >>
  /\ lastAnn = << >>
  /\ created = {}
  /\ tagsAtCall = tags
  /\ containing = {}

Next ==
  \/ CallCreateTag
  \/ CallGetAllTags
  \/ CallGetAnnotatedTags
  \/ CallFetchRemoteTags
  \/ InvokeFetchRemoteTags
  \/ CallIsTagReachableByRemote
  \/ RunnerCreatesTag
  \/ RunnerRejectsTag
  \/ RunnerListsTags
  \/ RunnerFormatsTags
  \/ RunnerListsRemote
  \/ RunnerListsBranches
  \/ RunnerFails
  \/ Rejects
  \/ CompleteCreateTag
  \/ CompleteGetAllTags
  \/ CompleteGetAnnotatedTags
  \/ CompleteFetchRemoteTags
  \/ CompleteIsTagReachableByRemote
  \/ Return

Spec == Init /\ [][Next]_vars
-----------------------------------------------------------------------------
(* fetchRemoteTags on any listing text: the runner has returned `stdout` *)

RECURSIVE Repeat(_, _)
Repeat(s, k) == IF k = 0 THEN << >> ELSE s \o Repeat(s, k - 1)

RefPaths ==
  { Repeat(RefsTags, k) \o mid \o body \o suffix :
      k \in 0..MaxPrefixes,
      mid \in { << >>, Braces, Peeled },
      body \in { << >>, << "v" >> },
      suffix \in { << >>, Peeled } }

FetchLines ==
  { << >>, Commit }
  \cup { Commit \o << TAB >> \o path : path \in RefPaths }
  \cup { Commit \o << TAB >> \o RefsTags \o << "v" >> \o << TAB >> \o << "w" >>,
         Commit \o << TAB, TAB >> \o RefsTags \o << "v" >>,
         Commit \o << TAB >> \o RefsTags \o Braces \o RefsTags \o << "v" >> }

RECURSIVE JoinLines(_)
JoinLines(ls) ==
  IF Len(ls) = 1 THEN ls[1] ELSE ls[1] \o << LF >> \o JoinLines(Tail(ls))

TextsOf(lines, max) == { JoinLines(ls) : ls \in UNION { [1..n -> lines] : n \in 1..max } }

InitReturned(op, remote, argv, text) ==
  /\ tags = [n \in TagNames |-> "none"]
  /\ pc = "returned"
  /\ call = [op |-> op, name |-> TagNameList[1], sha |-> << >>, account |-> "null",
             remote |-> remote]
  /\ args = argv
  /\ runnerCalls = 1
  /\ stdout = text
  /\ runnerErr = "none"
  /\ outcome = Pending
  /\ lastAll = << >>
  /\ lastAnn = << >>
  /\ created = {}
  /\ tagsAtCall = tags
  /\ containing = {}

InitFetch ==
  \E text \in TextsOf(FetchLines, MaxLines) :
    InitReturned("fetchRemoteTags", << "o" >>,
                 FetchRemoteTagsArgs(GitNetworkArguments("null"), << "o" >>), text)

NextFetch == CompleteFetchRemoteTags

SpecFetch == InitFetch /\ [][NextFetch]_vars

-----------------------------------------------------------------------------
(* isTagReachableByRemote on any branch listing text *)

BranchLines ==
  { << >>, << "o" >>, << "o", "/", "m" >>, << "u", "/", "m" >>,
    << "o", "/", "x", "/", "m" >>, << "o", "u", "/", "m" >> }

InitReach ==
  \E text \in TextsOf(BranchLines, MaxBranchLines), remote \in RemoteNames :
    InitReturned("isTagReachableByRemote", remote, IsTagReachableArgs(TagNameList[1]), text)

NextReach == CompleteIsTagReachableByRemote

SpecReach == InitReach /\ [][NextReach]_vars

-----------------------------------------------------------------------------
(* Vocabulary of the properties: fields of a text by the positions of   *)
(* its separators                                                        *)

Positions(s, c) == { i \in 1..Len(s) : s[i] = c }

NumFields(s, c) == Cardinality(Positions(s, c)) + 1

\* the k-th separator of s (0 before the first field, Len(s) + 1 after the last)
Boundary(s, c, k) ==
  IF k = 0 THEN 0
  ELSE IF k = NumFields(s, c) THEN Len(s) + 1
  ELSE CHOOSE p \in Positions(s, c) :
         Cardinality({ q \in Positions(s, c) : q < p }) = k - 1

NthField(s, c, k) == SubSeq(s, Boundary(s, c, k - 1) + 1, Boundary(s, c, k) - 1)

HasPrefix(s, p) == Len(s) >= Len(p) /\ \A i \in 1..Len(p) : s[i] = p[i]

HasSuffix(s, p) == Len(s) >= Len(p) /\ \A i \in 1..Len(p) : s[Len(s) - Len(p) + i] = p[i]

WithoutPrefix(s, p) == IF HasPrefix(s, p) THEN [i \in 1..(Len(s) - Len(p)) |-> s[Len(p) + i]] ELSE s

\* the second tab-separated field of each line that has one
SecondFields(text) ==
  [i \in 1..NumFields(text, LF) |->
     LET line == NthField(text, LF, i)
     IN IF NumFields(line, TAB) >= 2 THEN << NthField(line, TAB, 2) >> ELSE << >>]

IsKeptField(f) == f # << >> /\ f[1] # << >> /\ ~HasSuffix(f[1], Peeled)

\* the ref paths of the lines that name a tag, in line order
KeptFields(text) ==
  LET kept == SelectSeq(SecondFields(text), IsKeptField)
  IN [k \in 1..Len(kept) |-> kept[k][1]]

FetchDone == pc = "done" /\ call.op = "fetchRemoteTags" /\ outcome.status = "ok"

ReachDone == pc = "done" /\ call.op = "isTagReachableByRemote" /\ outcome.status = "ok"

Returned == outcome.result[1]

RefV == Commit \o << TAB >> \o RefsTags \o << "v" >>

-----------------------------------------------------------------------------
(* Properties of fetchRemoteTags, under SpecFetch *)

\* C1: fetchRemoteTags returns one name for each line whose second tab-separated
\* field is non-empty and does not end with ^{}, in the order of those lines (each
\* name is what is left of that line's field), and nothing for any other line.
C1_OneNamePerKeptLine ==
  FetchDone =>
    LET kept == KeptFields(stdout)
    IN /\ Len(Returned) = Len(kept)
       /\ \A k \in 1..Len(kept) : HasSuffix(kept[k], Returned[k])

\* an annotated tag, listed unpeeled and peeled, has contributed one name
C1_Witness ==
  /\ FetchDone
  /\ stdout = RefV \o << LF >> \o RefV \o Peeled
  /\ Returned = << << "v" >> >>

\* C2 as stated: no returned name begins with refs/tags/.
C2_NoRefsTagsPrefix ==
  FetchDone => \A k \in 1..Len(Returned) : ~HasPrefix(Returned[k], RefsTags)

\* C2 as amended: a returned name begins with refs/tags/ exactly when the line's
\* ref path, with one leading refs/tags/ removed, still begins with refs/tags/ or
\* with {}refs/tags/.
C2_OnePrefixRemoved ==
  FetchDone =>
    LET kept == KeptFields(stdout)
    IN /\ Len(Returned) = Len(kept)
       /\ \A k \in 1..Len(kept) :
            LET rest == WithoutPrefix(kept[k], RefsTags)
            IN HasPrefix(Returned[k], RefsTags)
                 <=> (HasPrefix(rest, RefsTags) \/ HasPrefix(rest, Braces \o RefsTags))

\* a ref path refs/tags/v has been returned as v
C2_Witness ==
  /\ FetchDone
  /\ stdout = RefV
  /\ Returned = << << "v" >> >>

\* C3: no returned name ends with the dereference marker ^{}.
C3_NoPeeledSuffix ==
  FetchDone => \A k \in 1..Len(Returned) : ~HasSuffix(Returned[k], Peeled)

\* a listing with a peeled line has been parsed and a name returned
C3_Witness ==
  /\ FetchDone
  /\ stdout = RefV \o Peeled \o << LF >> \o RefV
  /\ Returned = << << "v" >> >>

\* C9 as stated: each kept line's name is its second field with a leading
\* refs/tags/ removed and then a leading ^{} removed, otherwise unchanged.
C9_NameIsFieldStripped ==
  FetchDone =>
    LET kept == KeptFields(stdout)
    IN /\ Len(Returned) = Len(kept)
       /\ \A k \in 1..Len(kept) :
            Returned[k] = WithoutPrefix(WithoutPrefix(kept[k], RefsTags), Peeled)

\* C10 as stated: when the listing names each tag ref path refs/tags/<name>, of a
\* non-empty name, at most once (peeled lines aside), no name is returned twice.
C10_DistinctRefsDistinctNames ==
  LET kept == KeptFields(stdout)
  IN (/\ FetchDone
      /\ \A k \in 1..Len(kept) : HasPrefix(kept[k], RefsTags) /\ Len(kept[k]) > Len(RefsTags)
      /\ \A j, k \in 1..Len(kept) : j # k => kept[j] # kept[k])
     => \A j, k \in 1..Len(Returned) : j # k => Returned[j] # Returned[k]

-----------------------------------------------------------------------------
(* Properties of isTagReachableByRemote *)

\* C6: isTagReachableByRemote returns true if and only if at least one line of
\* the branch listing begins with <remote.name>/ (checked under SpecReach).
C6_TrueIffSomeLineOfRemote ==
  ReachDone =>
    (Returned <=> \E i \in 1..NumFields(stdout, LF) :
                    HasPrefix(NthField(stdout, LF, i), call.remote \o << "/" >>))

\* only another remote's branch is listed and the answer has been false
C6_Witness ==
  /\ ReachDone
  /\ call.remote = << "o" >>
  /\ stdout = << "u", "/", "m", LF >>
  /\ Returned = FALSE

\* C5 as stated: for distinct remotes R and S, when every remote-tracking branch
\* that contains the tag belongs to S, isTagReachableByRemote for R returns false.
C5_OtherRemoteOnlyIsFalse ==
  ReachDone =>
    \A S \in RemoteNames \ {call.remote} :
      (\A b \in containing : b.remote = S) => Returned = FALSE

-----------------------------------------------------------------------------
(* Properties of the local operations and of every call, under Spec *)

Elements(s) == { s[i] : i \in 1..Len(s) }

IsAnnotated(name) == name \in DOMAIN tags /\ tags[name] = "tag"

C7_CreatedIsListed ==
  /\ (pc = "done" /\ outcome.status = "ok" /\ call.op \in {"getAllTags", "getAnnotatedTags"})
       => created \subseteq Elements(Returned)
  /\ (pc = "done" /\ outcome.status = "failed" /\ call.op = "createTag")
       => tags = tagsAtCall

\* the annotated listing has been taken after a successful createTag
C7_Witness ==
  /\ pc = "done" /\ outcome.status = "ok" /\ call.op = "getAnnotatedTags"
  /\ created # {}
  /\ created \subseteq Elements(Returned)

\* C8: a call invokes the runner at most once, and when the runner fails the call
\* ends in failure with the runner's error and no result.
C8_FailurePropagatesOnce ==
  /\ runnerCalls <= 1
  /\ (pc = "done" /\ runnerErr # "none") =>
       /\ outcome.status = "failed"
       /\ outcome.error = runnerErr
       /\ outcome.result = << >>

\* the runner has failed under fetchRemoteTags and the call has ended in failure
C8_Witness ==
  /\ pc = "done"
  /\ call.op = "fetchRemoteTags"
  /\ runnerErr = "ToolInvocationError"
  /\ outcome.status = "failed"
  /\ runnerCalls = 1
====
